---- MODULE Spec2Model ----
(***************************************************************************)
(* SOCKS4 / SOCKS4a client handshake (src/socks4.go).                       *)
(*                                                                         *)
(* Strings are sequences of one-character strings, byte slices are         *)
(* sequences of integers 0..255.  The upstream dialer, the resolver and    *)
(* the transport stream are the environment: their answers are chosen      *)
(* nondeterministically from small sets.                                   *)
(***************************************************************************)
EXTENDS Integers, Sequences, FiniteSets, TLC

VARIABLES s, Ident, pc, network, addr, c, err, req, i, resp, ret,
          conns, dialed, ops, resolved, wrote, wr, rd, calls, succeeded,
          built, assigns, storing, ptr, panics

vars == <<s, Ident, pc, network, addr, c, err, req, i, resp, ret,
          conns, dialed, ops, resolved, wrote, wr, rd, calls, succeeded,
          built, assigns, storing, ptr, panics>>

(***************************************************************************)
(* Bounds of the model.                                                    *)
(***************************************************************************)
\* Dial invocations started over one run of the program.
MaxCalls == 2

\* Assignments of Ident the application makes over one run of the program.
MaxAssigns == 1

(***************************************************************************)
(* Program constants.                                                      *)
(***************************************************************************)
socksVersion == 4
socksConnect == 1
accessGranted == 90
accessRejected == 91
accessIdentRequired == 92
accessIdentFailed == 93
minRequestLen == 8

\* Length of the reply buffer, var resp [8]byte.
RespLen == 8

ErrWrongNetwork == "ErrWrongNetwork"
ErrDialFailed == "ErrDialFailed"
ErrWrongAddr == "ErrWrongAddr"
ErrConnRejected == "ErrConnRejected"
ErrIdentRequired == "ErrIdentRequired"
ErrIO == "ErrIO"
ErrHostUnknown == "ErrHostUnknown"
ErrInvalidResponse == "ErrInvalidResponse"

\* A typed error: its kind, the arguments formatted into its message, and
\* the cause it wraps ("" when it wraps none).
TypedError(kind, args, cause) == [kind |-> kind, args |-> args, cause |-> cause]

\* The nil error.
NilErr == [kind |-> "nil", args |-> <<>>, cause |-> ""]

\* The nil net.Conn.
NilConn == 0

(***************************************************************************)
(* Characters and bytes.                                                   *)
(***************************************************************************)
Digits == {"0", "1", "2", "3", "4", "5", "6", "7", "8", "9"}

\* The byte of a character (ASCII), for the characters the model uses.
Ord(ch) ==
    CASE ch = "0" -> 48 [] ch = "1" -> 49 [] ch = "2" -> 50 [] ch = "3" -> 51
      [] ch = "4" -> 52 [] ch = "5" -> 53 [] ch = "6" -> 54 [] ch = "7" -> 55
      [] ch = "8" -> 56 [] ch = "9" -> 57
      [] ch = "+" -> 43 [] ch = "-" -> 45 [] ch = "." -> 46 [] ch = ":" -> 58
      [] ch = "?" -> 63
      [] ch = "@" -> 64 [] ch = "[" -> 91 [] ch = "]" -> 93
      [] ch = "a" -> 97 [] ch = "b" -> 98 [] ch = "d" -> 100 [] ch = "n" -> 110
      [] ch = "o" -> 111 [] ch = "u" -> 117 [] ch = "x" -> 120 [] ch = "y" -> 121

\* []byte(str), as buf.WriteString writes it.
Bytes(str) == [j \in 1..Len(str) |-> Ord(str[j])]

\* str[from:] and str[:to] with Go's 0-based offsets.
From(str, from) == SubSeq(str, from + 1, Len(str))
Upto(str, to) == SubSeq(str, 1, to)

\* strings.LastIndexByte / IndexByte: 0-based offset, -1 when absent.
LastIndex(str, ch) ==
    LET at == {j \in 1..Len(str) : str[j] = ch}
    IN  IF at = {} THEN -1 ELSE (CHOOSE j \in at : \A m \in at : m <= j) - 1

IndexByte(str, ch) ==
    LET at == {j \in 1..Len(str) : str[j] = ch}
    IN  IF at = {} THEN -1 ELSE (CHOOSE j \in at : \A m \in at : j <= m) - 1

(***************************************************************************)
(* net.SplitHostPort and strconv.Atoi, as parseAddr calls them.            *)
(***************************************************************************)
\* net.SplitHostPort(hostport): the port starts after the last colon; a
\* host in brackets must end right before that colon; no other bracket and
\* no other colon may appear.
SplitHostPort(hostport) ==
    LET fail == [host |-> <<>>, port |-> <<>>, err |-> TRUE]
        last == LastIndex(hostport, ":")
    IN  IF last < 0 THEN fail
        ELSE
        LET bracket == hostport[1] = "["
            end == IndexByte(hostport, "]")
            host == IF bracket THEN SubSeq(hostport, 2, end)
                    ELSE Upto(hostport, last)
            j == IF bracket THEN 1 ELSE 0
            k == IF bracket THEN end + 1 ELSE 0
        IN  IF bracket /\ (end < 0 \/ end + 1 # last) THEN fail
            ELSE IF ~bracket /\ IndexByte(host, ":") >= 0 THEN fail
            ELSE IF IndexByte(From(hostport, j), "[") >= 0 THEN fail
            ELSE IF IndexByte(From(hostport, k), "]") >= 0 THEN fail
            ELSE [host |-> host, port |-> From(hostport, last + 1), err |-> FALSE]

\* The value of a string of decimal digits.
RECURSIVE DigitsValue(_)
DigitsValue(str) ==
    IF str = <<>> THEN 0
    ELSE DigitsValue(Upto(str, Len(str) - 1)) * 10 + (Ord(str[Len(str)]) - 48)

\* The digits of the largest int and of the magnitude of the smallest one
\* (int is 64 bits wide).
MaxIntDigits ==
    <<"9", "2", "2", "3", "3", "7", "2", "0", "3", "6",
      "8", "5", "4", "7", "7", "5", "8", "0", "7">>
MinIntDigits ==
    <<"9", "2", "2", "3", "3", "7", "2", "0", "3", "6",
      "8", "5", "4", "7", "7", "5", "8", "0", "8">>

\* A string of digits without its leading zeros.
RECURSIVE StripZeros(_)
StripZeros(str) ==
    IF str # <<>> /\ str[1] = "0" THEN StripZeros(From(str, 1)) ELSE str

\* The number written by the digits str is larger than the one written by
\* the digits lim; neither has a leading zero.
DigitsExceed(str, lim) ==
    \/ Len(str) > Len(lim)
    \/ /\ Len(str) = Len(lim)
       /\ \E j \in 1..Len(str) :
             /\ Ord(str[j]) > Ord(lim[j])
             /\ \A m \in 1..(j - 1) : str[m] = lim[m]

\* strconv.Atoi(str): an optional sign, then one or more decimal digits; a
\* value that does not fit an int is an error (value out of range).
Atoi(str) ==
    LET fail == [n |-> 0, err |-> TRUE]
        signed == str # <<>> /\ str[1] \in {"+", "-"}
        digits == IF signed THEN From(str, 1) ELSE str
        limit == IF signed /\ str[1] = "-" THEN MinIntDigits ELSE MaxIntDigits
    IN  IF str = <<>> \/ digits = <<>> THEN fail
        ELSE IF \E j \in 1..Len(digits) : digits[j] \notin Digits THEN fail
        ELSE IF DigitsExceed(StripZeros(digits), limit) THEN fail
        ELSE [n |-> IF str[1] = "-" THEN 0 - DigitsValue(digits)
                    ELSE DigitsValue(digits),
              err |-> FALSE]

\* socks4.parseAddr: (host, iport, err).
parseAddr(a) ==
    LET sp == SplitHostPort(a)
        at == Atoi(sp.port)
    IN  IF sp.err
        THEN [host |-> <<>>, iport |-> 0,
              err |-> TypedError(ErrWrongAddr, <<a>>, "SplitHostPort")]
        ELSE IF at.err
        THEN [host |-> <<>>, iport |-> 0,
              err |-> TypedError(ErrWrongAddr, <<a>>, "Atoi")]
        ELSE [host |-> sp.host, iport |-> at.n, err |-> NilErr]

(***************************************************************************)
(* net.IP values: nil (empty), 4 bytes, or 16 bytes.                       *)
(***************************************************************************)
\* net.IPv4(a, b, c, d): the 16-byte IPv4-in-IPv6 form.
IPv4(b1, b2, b3, b4) ==
    <<0, 0, 0, 0, 0, 0, 0, 0, 0, 0, 255, 255, b1, b2, b3, b4>>

\* ip.To4(): the 4-byte form of an IPv4 address, nil for anything else.
To4(ip) ==
    IF Len(ip) = 4 THEN ip
    ELSE IF Len(ip) = 16 /\ (\A j \in 1..10 : ip[j] = 0)
                         /\ ip[11] = 255 /\ ip[12] = 255
    THEN SubSeq(ip, 13, 16)
    ELSE <<>>

\* What net.ResolveIPAddr("ip4", host) may answer.  The empty host is not
\* looked up: the answer is an address with a nil IP and no error.  Any
\* other host either fails or yields one IPv4 address, in either form.
ResolvedIPs == {<<10, 0, 0, 2>>, IPv4(192, 168, 1, 7)}

ResolveIPAddr(host) ==
    IF host = <<>> THEN {[IP |-> <<>>, err |-> FALSE]}
    ELSE {[IP |-> <<>>, err |-> TRUE]}
         \cup {[IP |-> ip, err |-> FALSE] : ip \in ResolvedIPs}

\* A lookup that does not test the resolver's error.
lookupAddrIgnore(host, answer) == [ip |-> To4(answer.IP), err |-> NilErr]

\* socks4.lookupAddr(host), given the resolver's answer: (ip, err).
lookupAddr(host, answer) ==
    IF answer.err
    THEN [ip |-> <<>>, err |-> TypedError(ErrHostUnknown, <<host>>, "ResolveIPAddr")]
    ELSE [ip |-> To4(answer.IP), err |-> NilErr]

(***************************************************************************)
(* Request construction.                                                   *)
(***************************************************************************)
\* uint16(port): the low 16 bits of the int.
uint16(n) == n % 65536

\* binary.Write(&buf, binary.BigEndian, uint16): two bytes, high first.
BigEndian16(n) == <<n \div 256, n % 256>>

\* socks4.isSocks4a
isSocks4a(d) == d.url.Scheme = "socks4a"

\* A request whose hostname field is the address as given, not its host.
prepareRequestRawHost(d, a, ident, answer) ==
    LET p == parseAddr(a)
        head == <<socksVersion, socksConnect>> \o BigEndian16(uint16(p.iport))
        l == IF isSocks4a(d) THEN [ip |-> IPv4(0, 0, 0, 1), err |-> NilErr]
             ELSE lookupAddr(p.host, answer)
        tail == IF isSocks4a(d) THEN Bytes(a) \o <<0>> ELSE <<>>
    IN  IF l.err.kind # "nil" THEN [req |-> <<>>, err |-> l.err]
        ELSE [req |-> head \o To4(l.ip) \o Bytes(ident) \o <<0>> \o tail,
              err |-> NilErr]

\* A request built without the Ident.
prepareRequestNoIdent(d, a, ident, answer) ==
    LET p == parseAddr(a)
        head == <<socksVersion, socksConnect>> \o BigEndian16(uint16(p.iport))
        l == IF isSocks4a(d) THEN [ip |-> IPv4(0, 0, 0, 1), err |-> NilErr]
             ELSE lookupAddr(p.host, answer)
        tail == IF isSocks4a(d) THEN Bytes(p.host) \o <<0>> ELSE <<>>
    IN  IF l.err.kind # "nil" THEN [req |-> <<>>, err |-> l.err]
        ELSE [req |-> head \o To4(l.ip) \o <<0>> \o tail, err |-> NilErr]

\* socks4.prepareRequest(addr), given the Ident it reads and the resolver's
\* answer (consulted only when the scheme is not socks4a): (req, err).
\* The error of parseAddr is assigned and never tested.
prepareRequest(d, a, ident, answer) ==
    LET p == parseAddr(a)
        head == <<socksVersion, socksConnect>> \o BigEndian16(uint16(p.iport))
        l == IF isSocks4a(d) THEN [ip |-> IPv4(0, 0, 0, 1), err |-> NilErr]
             ELSE lookupAddr(p.host, answer)
        tail == IF isSocks4a(d) THEN Bytes(p.host) \o <<0>> ELSE <<>>
    IN  IF l.err.kind # "nil" THEN [req |-> <<>>, err |-> l.err]
        ELSE [req |-> head \o To4(l.ip) \o Bytes(ident) \o <<0>> \o tail,
              err |-> NilErr]

(***************************************************************************)
(* Inputs and environment answers.                                         *)
(***************************************************************************)
\* var Ident = "nobody@0.0.0.0"
DefaultIdent ==
    <<"n", "o", "b", "o", "d", "y", "@", "0", ".", "0", ".", "0", ".", "0">>

\* The values the embedding application gives Ident.
Idents == {DefaultIdent, <<>>, <<"u">>}

\* Ident is a string header of two words, the data pointer and the length,
\* and no lock guards it: an assignment stores the two words one after the
\* other, a read loads them one after the other, and a read may pair the
\* data of one value with the length of another.
Str(v) == [data |-> v, len |-> Len(v)]

\* The string a header denotes: the first n bytes at data, the bytes beyond
\* the end of data being whatever the memory holds there (pad).
Header(data, n, pad) ==
    IF n <= Len(data) THEN SubSeq(data, 1, n)
    ELSE data \o [j \in 1..(n - Len(data)) |-> pad]

\* The bytes a read beyond the end of a string may find.
Beyond == {"?", "0"}

\* The strings WriteString may copy from the header h.
Readable(h) == {Header(h.data, h.len, pad) : pad \in Beyond}

\* A header whose length exceeds its data may make the copy fault (a nil
\* data pointer, as the empty string has, or unmapped memory).
MayFault(h) == h.len > Len(h.data)

\* The network argument of Dial.
Networks == {"tcp", "tcp4", "udp"}

\* The addr argument of Dial.
Addrs ==
    { <<"a", ":", "8", "0">>,
      <<":", "8", "0">>,
      <<"a", ":", "0">>,
      <<"a", ":", "-", "1">>,
      <<"a", ":", "+", "8", "0">>,
      <<"a", ":", "6", "5", "5", "3", "6">>,
      <<"a", ":", "9", "2", "2", "3", "3", "7", "2", "0", "3", "6",
                  "8", "5", "4", "7", "7", "5", "8", "0", "8">>,
      <<"[", "a", "]", ":", "8", "0">>,
      <<>>,
      <<"a">>,
      <<"a", ":", "8", "x">> }

\* The descriptors the registered constructors build: socks4{url: u, dialer: d}.
Schemes == {"socks4", "socks4a"}
ProxyHost == <<"x", ":", "1", "0", "8", "0">>
Descriptor(scheme) ==
    [url |-> [Scheme |-> scheme, Host |-> ProxyHost], dialer |-> "d"]

\* The errors a stream's Write may return (nil: none).
WriteErrs == {"nil", "EPIPE"}

\* The byte counts a Write of request r may report.
WriteCounts(r) ==
    {0, minRequestLen - 1, minRequestLen, Len(r)} \cap (0..Len(r))

\* An 8-byte reply: byte 0, the status byte, and six bytes of port and address.
Reply(b0, status, fill) == <<b0, status, fill, fill, fill, fill, fill, fill>>

StatusBytes == {accessGranted, accessRejected, accessIdentRequired,
                accessIdentFailed, 153, 0}

FullReplies ==
    {Reply(0, st, 0) : st \in StatusBytes}
    \cup {Reply(accessGranted, accessRejected, 0),
          Reply(0, accessGranted, accessRejected)}

\* What one Read into an 8-byte buffer may deliver: all of a reply, its
\* first seven bytes, its first byte, or nothing.
ReadData ==
    FullReplies
    \cup {Upto(Reply(0, accessGranted, 0), RespLen - 1), <<accessGranted>>, <<>>}

\* What one Read may return: (data, err).  Data comes with no error or with
\* the end of the stream; a failed Read returns nothing, or data all the same.
ReadResults ==
    (ReadData \X {"nil"})
    \cup ({Reply(0, accessGranted, 0), Reply(0, accessRejected, 0), <<>>} \X {"EOF"})
    \cup ({<<>>, Reply(0, accessGranted, 0)} \X {"ECONNRESET"})

\* The reply buffer after n bytes of data were read into the zeroed array.
Filled(data) == [j \in 1..RespLen |-> IF j <= Len(data) THEN data[j] ELSE 0]

\* No result yet of a Write or Read.
NoIO == [n |-> -1, err |-> "none"]

\* The invocation slots.  Spec runs the invocations of slot 1, one after
\* the other.
Invs == {1, 2}
Sequential == {1}

\* No request built yet.
NotBuilt == [ident |-> <<"-">>, raced |-> FALSE]

(***************************************************************************)
(* State.                                                                  *)
(*   s        the dialer descriptor                                        *)
(*   Ident    the process-wide Ident: its data word and its length word    *)
(*   pc[k]    where invocation k of Dial stands                            *)
(*   network, addr, c, err, req, i, resp   Dial's arguments and locals     *)
(*   ret[k]   what Dial returned: (c, err)                                 *)
(*   conns    the streams the upstream dialer has opened; per stream the   *)
(*            number of Close calls it received                            *)
(*   dialed[k], ops[k], resolved[k], wrote[k]   history of invocation k:   *)
(*            the upstream dialer's calls, the operations performed in     *)
(*            order, the resolver's answers, and the byte slices passed    *)
(*            to Write                                                     *)
(*   wr[k], rd[k]   what the stream's Write and Read returned to           *)
(*            invocation k: (n, err), NoIO before the call                 *)
(*   calls    the number of Dial invocations started                       *)
(*   succeeded   the number of Dial invocations that returned a nil error  *)
(*   built[k]    the string invocation k read from Ident to build its      *)
(*            request, and whether the two words it loaded belong to       *)
(*            different values (a torn read); NotBuilt before              *)
(*   assigns     the number of assignments of Ident so far                 *)
(*   storing     an assignment has stored the data word of Ident and not   *)
(*            yet the length word                                          *)
(*   ptr[k]      the data word of Ident invocation k has loaded, between   *)
(*            its two loads                                                *)
(*   panics      the number of invocations that panicked                   *)
(***************************************************************************)
Init ==
    /\ s \in {Descriptor(sch) : sch \in Schemes}
    /\ Ident = Str(DefaultIdent)
    /\ pc = [k \in Invs |-> "idle"]
    /\ network = [k \in Invs |-> ""]
    /\ addr = [k \in Invs |-> <<>>]
    /\ c = [k \in Invs |-> NilConn]
    /\ err = [k \in Invs |-> NilErr]
    /\ req = [k \in Invs |-> <<>>]
    /\ i = [k \in Invs |-> 0]
    /\ resp = [k \in Invs |-> Filled(<<>>)]
    /\ ret = [k \in Invs |-> [c |-> NilConn, err |-> NilErr]]
    /\ conns = <<>>
    /\ dialed = [k \in Invs |-> <<>>]
    /\ ops = [k \in Invs |-> <<>>]
    /\ resolved = [k \in Invs |-> <<>>]
    /\ wrote = [k \in Invs |-> <<>>]
    /\ wr = [k \in Invs |-> NoIO]
    /\ rd = [k \in Invs |-> NoIO]
    /\ calls = 0
    /\ succeeded = 0
    /\ built = [k \in Invs |-> NotBuilt]
    /\ assigns = 0
    /\ storing = FALSE
    /\ ptr = [k \in Invs |-> <<>>]
    /\ panics = 0

\* The embedding application assigns Ident (var Ident, line 42), no read
\* falling between the two stores.  Nothing keeps it from doing so while
\* invocations of Dial are in flight.
SetIdent(v) ==
    /\ ~storing
    /\ assigns < MaxAssigns
    /\ Str(v) # Ident
    /\ Ident' = Str(v)
    /\ assigns' = assigns + 1
    /\ UNCHANGED <<s, pc, network, addr, c, err, req, i, resp, ret,
                   conns, dialed, ops, resolved, wrote, wr, rd, calls, succeeded,
                   built, storing, ptr, panics>>

\* The first store of an assignment Ident = v: the data word.
SetIdentData(v) ==
    /\ ~storing
    /\ assigns < MaxAssigns
    /\ Str(v) # Ident
    /\ Ident' = [Ident EXCEPT !.data = v]
    /\ storing' = TRUE
    /\ assigns' = assigns + 1
    /\ UNCHANGED <<s, pc, network, addr, c, err, req, i, resp, ret,
                   conns, dialed, ops, resolved, wrote, wr, rd, calls, succeeded,
                   built, ptr, panics>>

\* The second store of the assignment: the length word.
SetIdentLen ==
    /\ storing
    /\ Ident' = [Ident EXCEPT !.len = Len(Ident.data)]
    /\ storing' = FALSE
    /\ UNCHANGED <<s, pc, network, addr, c, err, req, i, resp, ret,
                   conns, dialed, ops, resolved, wrote, wr, rd, calls, succeeded,
                   built, assigns, ptr, panics>>

\* A deferred function that forgets to close the stream.
deferredNoClose(k, cv, e, h) ==
    /\ ops' = [ops EXCEPT ![k] = h]
    /\ UNCHANGED conns

\* A deferred function that closes the stream whatever the error.
deferredAlways(k, cv, e, h) ==
    /\ conns' = [conns EXCEPT ![cv].closes = @ + 1]
    /\ ops' = [ops EXCEPT ![k] = Append(h, "close")]

\* A deferred function that closes the first stream of the descriptor, not
\* the invocation's own.
deferredCloseFirst(k, cv, e, h) ==
    IF e.kind # "nil"
    THEN /\ conns' = [conns EXCEPT ![1].closes = @ + 1]
         /\ ops' = [ops EXCEPT ![k] = Append(h, "close")]
    ELSE /\ ops' = [ops EXCEPT ![k] = h]
         /\ UNCHANGED conns

\* The deferred function of Dial (lines 70-74): close the stream if the
\* error being returned is not nil.  h is the invocation's history so far.
deferred(k, cv, e, h) ==
    IF e.kind # "nil"
    THEN /\ conns' = [conns EXCEPT ![cv].closes = @ + 1]
         /\ ops' = [ops EXCEPT ![k] = Append(h, "close")]
    ELSE /\ ops' = [ops EXCEPT ![k] = h]
         /\ UNCHANGED conns

\* A return that hands back no stream together with an error.
ReturnNoStream(k, cv, e, h) ==
    /\ err' = [err EXCEPT ![k] = e]
    /\ ret' = [ret EXCEPT ![k] =
                 [c |-> IF e.kind # "nil" THEN NilConn ELSE cv, err |-> e]]
    /\ pc' = [pc EXCEPT ![k] = "done"]
    /\ succeeded' = IF e.kind = "nil" THEN succeeded + 1 ELSE succeeded
    /\ deferred(k, cv, e, h)

\* "return cv, e" once the stream was acquired: the results are set, the
\* deferred function runs, and Dial is over.
Return(k, cv, e, h) ==
    /\ err' = [err EXCEPT ![k] = e]
    /\ ret' = [ret EXCEPT ![k] = [c |-> cv, err |-> e]]
    /\ pc' = [pc EXCEPT ![k] = "done"]
    /\ succeeded' = IF e.kind = "nil" THEN succeeded + 1 ELSE succeeded
    /\ deferred(k, cv, e, h)

\* A network test that lets every named network through.
networkAny(nw) == nw # ""

\* The network test of Dial.
networkOK(nw) == nw = "tcp" \/ nw = "tcp4"

\* Dial(network, addr) is called (lines 60-63): a network other than tcp
\* and tcp4 returns nil, ErrWrongNetwork at once.
Call(k, nw, a) ==
    /\ pc[k] = "idle"
    /\ calls < MaxCalls
    /\ calls' = calls + 1
    /\ network' = [network EXCEPT ![k] = nw]
    /\ addr' = [addr EXCEPT ![k] = a]
    /\ IF networkOK(nw)
       THEN /\ pc' = [pc EXCEPT ![k] = "dial"]
            /\ UNCHANGED <<err, ret>>
       ELSE /\ pc' = [pc EXCEPT ![k] = "done"]
            /\ err' = [err EXCEPT ![k] = TypedError(ErrWrongNetwork, <<>>, "")]
            /\ ret' = [ret EXCEPT ![k] =
                         [c |-> NilConn, err |-> TypedError(ErrWrongNetwork, <<>>, "")]]
    /\ UNCHANGED <<s, Ident, c, req, i, resp, conns, dialed, ops, resolved, wrote,
                   wr, rd, succeeded>>
    /\ UNCHANGED <<built, assigns, storing, ptr, panics>>

\* Dial has returned: the caller takes its result, and the invocation's
\* arguments, locals and history are gone.
Collect(k) ==
    /\ pc[k] = "done"
    /\ pc' = [pc EXCEPT ![k] = "idle"]
    /\ network' = [network EXCEPT ![k] = ""]
    /\ addr' = [addr EXCEPT ![k] = <<>>]
    /\ c' = [c EXCEPT ![k] = NilConn]
    /\ err' = [err EXCEPT ![k] = NilErr]
    /\ req' = [req EXCEPT ![k] = <<>>]
    /\ i' = [i EXCEPT ![k] = 0]
    /\ resp' = [resp EXCEPT ![k] = Filled(<<>>)]
    /\ ret' = [ret EXCEPT ![k] = [c |-> NilConn, err |-> NilErr]]
    /\ dialed' = [dialed EXCEPT ![k] = <<>>]
    /\ ops' = [ops EXCEPT ![k] = <<>>]
    /\ resolved' = [resolved EXCEPT ![k] = <<>>]
    /\ wrote' = [wrote EXCEPT ![k] = <<>>]
    /\ wr' = [wr EXCEPT ![k] = NoIO]
    /\ rd' = [rd EXCEPT ![k] = NoIO]
    /\ built' = [built EXCEPT ![k] = NotBuilt]
    /\ UNCHANGED <<s, Ident, conns, calls, succeeded, assigns, storing, ptr, panics>>

\* A dial of the target address instead of the proxy.
dialTargetAddr(d, a) == a

\* The address Dial hands to the upstream dialer.
dialTarget(d, a) == d.url.Host

\* The error of the upstream dialer (nil: none).
DialErrs == {"nil", "ECONNREFUSED"}

\* A dial check that drops the dialer's error instead of wrapping it.
dialOutcomeUnwrapped(derr) ==
    IF derr # "nil" THEN TypedError(ErrDialFailed, <<>>, "") ELSE NilErr

\* What Dial makes of the upstream dialer's error (lines 66-68).
dialOutcome(derr) ==
    IF derr # "nil" THEN TypedError(ErrDialFailed, <<>>, derr) ELSE NilErr

\* c, err = s.dialer.Dial(network, s.url.Host) (lines 65-68): the upstream
\* dialer opens a new stream, or fails with derr.
DialUpstream(k, derr) ==
    /\ pc[k] = "dial"
    /\ dialed' = [dialed EXCEPT ![k] =
                    Append(@, [network |-> network[k],
                               address |-> dialTarget(s, addr[k]),
                               err |-> derr])]
    /\ ops' = [ops EXCEPT ![k] = Append(@, "dial")]
    /\ IF derr = "nil"
       THEN /\ conns' = Append(conns, [closes |-> 0])
            /\ c' = [c EXCEPT ![k] = Len(conns) + 1]
            /\ pc' = [pc EXCEPT ![k] = "prepare"]
            /\ UNCHANGED <<err, ret>>
       ELSE /\ err' = [err EXCEPT ![k] = dialOutcome(derr)]
            /\ ret' = [ret EXCEPT ![k] = [c |-> NilConn, err |-> dialOutcome(derr)]]
            /\ pc' = [pc EXCEPT ![k] = "done"]
            /\ UNCHANGED <<conns, c>>
    /\ UNCHANGED <<s, Ident, network, addr, req, i, resp, resolved, wrote, wr, rd,
                   calls, succeeded>>
    /\ UNCHANGED <<built, assigns, storing, ptr, panics>>

\* The resolver's answers prepareRequest may get: none is asked for under
\* socks4a.
Answers(d, a) ==
    IF isSocks4a(d) THEN {[IP |-> <<>>, err |-> FALSE]}
    ELSE ResolveIPAddr(parseAddr(a).host)

\* The resolver's answer invocation k got (none under socks4a).
AnswerOf(k) ==
    IF isSocks4a(s) THEN [IP |-> <<>>, err |-> FALSE] ELSE resolved[k][1]

\* The header invocation k reads: the data word it loaded, and the length
\* word as it is now.
Loaded(k) == [data |-> ptr[k], len |-> Ident.len]

\* req, err := s.prepareRequest(addr) (line 76), up to the first load of
\* Ident at line 140: the address is parsed, the host looked up under
\* socks4 (a failed lookup returns, lines 132-135 and 77-79), and the data
\* word of Ident is loaded.
PrepareRequest(k, answer) ==
    /\ pc[k] = "prepare"
    /\ answer \in Answers(s, addr[k])
    /\ resolved' = [resolved EXCEPT ![k] =
                      IF isSocks4a(s) THEN @ ELSE Append(@, answer)]
    /\ LET r == prepareRequest(s, addr[k], <<>>, answer)
           h == IF isSocks4a(s) THEN ops[k] ELSE Append(ops[k], "resolve")
       IN  IF r.err.kind # "nil"
           THEN /\ Return(k, c[k], r.err, h)
                /\ UNCHANGED ptr
           ELSE /\ ptr' = [ptr EXCEPT ![k] = Ident.data]
                /\ pc' = [pc EXCEPT ![k] = "ident"]
                /\ ops' = [ops EXCEPT ![k] = h]
                /\ UNCHANGED <<err, ret, conns, succeeded>>
    /\ UNCHANGED <<s, Ident, network, addr, c, req, i, resp, dialed, wrote, wr, rd,
                   calls, built, assigns, storing, panics>>

\* The rest of prepareRequest (lines 140-149) and its return to Dial (lines
\* 76-79): the length word of Ident is loaded, WriteString copies the
\* string seen, and the request is complete.
PrepareRequestIdent(k, seen) ==
    /\ pc[k] = "ident"
    /\ seen \in Readable(Loaded(k))
    /\ req' = [req EXCEPT ![k] = prepareRequest(s, addr[k], seen, AnswerOf(k)).req]
    /\ built' = [built EXCEPT ![k] =
                   [ident |-> seen, raced |-> Loaded(k).len # Len(ptr[k])]]
    /\ ptr' = [ptr EXCEPT ![k] = <<>>]
    /\ pc' = [pc EXCEPT ![k] = "write"]
    /\ UNCHANGED <<s, Ident, network, addr, c, err, i, resp, ret, conns, dialed,
                   ops, resolved, wrote, wr, rd, calls, succeeded, assigns,
                   storing, panics>>

\* The copy of a torn Ident faults: WriteString panics, the deferred
\* function (lines 70-74) finds err nil and closes nothing, and Dial does
\* not return.
PrepareRequestFault(k) ==
    /\ pc[k] = "ident"
    /\ MayFault(Loaded(k))
    /\ built' = [built EXCEPT ![k] = [ident |-> ptr[k], raced |-> TRUE]]
    /\ ptr' = [ptr EXCEPT ![k] = <<>>]
    /\ pc' = [pc EXCEPT ![k] = "panic"]
    /\ panics' = panics + 1
    /\ UNCHANGED <<s, Ident, network, addr, c, err, req, i, resp, ret, conns,
                   dialed, ops, resolved, wrote, wr, rd, calls, succeeded,
                   assigns, storing>>

\* The caller recovers from the panic; the invocation's arguments, locals
\* and history are gone, and the stream it acquired stays as it is.
Recover(k) ==
    /\ pc[k] = "panic"
    /\ pc' = [pc EXCEPT ![k] = "idle"]
    /\ network' = [network EXCEPT ![k] = ""]
    /\ addr' = [addr EXCEPT ![k] = <<>>]
    /\ c' = [c EXCEPT ![k] = NilConn]
    /\ dialed' = [dialed EXCEPT ![k] = <<>>]
    /\ ops' = [ops EXCEPT ![k] = <<>>]
    /\ resolved' = [resolved EXCEPT ![k] = <<>>]
    /\ built' = [built EXCEPT ![k] = NotBuilt]
    /\ UNCHANGED <<s, Ident, err, req, i, resp, ret, conns, wrote, wr, rd, calls,
                   succeeded, assigns, storing, ptr, panics>>

\* A Write check without the short-write test.
writeOutcomeNoShort(n, werr) ==
    IF werr # "nil" THEN TypedError(ErrIO, <<>>, werr) ELSE NilErr

\* A Write check that also takes a write of exactly the header for short.
writeOutcomeStrict(n, werr) ==
    IF werr # "nil" THEN TypedError(ErrIO, <<>>, werr)
    ELSE IF n <= minRequestLen THEN TypedError(ErrIO, <<>>, "ErrShortWrite")
    ELSE NilErr

\* What Dial makes of the Write's result (lines 83-87): the error to
\* return, nil to go on.
writeOutcome(n, werr) ==
    IF werr # "nil" THEN TypedError(ErrIO, <<>>, werr)
    ELSE IF n < minRequestLen THEN TypedError(ErrIO, <<>>, "ErrShortWrite")
    ELSE NilErr

\* A Write that is tried again after a short write instead of giving up.
WriteRetry(k, n, werr) ==
    /\ pc[k] = "write"
    /\ n \in WriteCounts(req[k])
    /\ wrote' = [wrote EXCEPT ![k] = Append(@, req[k])]
    /\ i' = [i EXCEPT ![k] = n]
    /\ wr' = [wr EXCEPT ![k] = [n |-> n, err |-> werr]]
    /\ LET e == writeOutcome(n, werr)
           h == Append(ops[k], "write")
       IN  IF e.kind # "nil" /\ werr # "nil"
           THEN Return(k, c[k], e, h)
           ELSE /\ pc' = [pc EXCEPT ![k] = IF e.kind # "nil" THEN "write" ELSE "read"]
                /\ ops' = [ops EXCEPT ![k] = h]
                /\ UNCHANGED <<err, ret, conns, succeeded>>
    /\ UNCHANGED <<s, Ident, network, addr, c, req, resp, dialed, resolved, rd, calls>>
    /\ UNCHANGED <<built, assigns, storing, ptr, panics>>

\* i, err = c.Write(req) (lines 81-87): the stream reports n bytes written
\* and the error werr.
Write(k, n, werr) ==
    /\ pc[k] = "write"
    /\ n \in WriteCounts(req[k])
    /\ wrote' = [wrote EXCEPT ![k] = Append(@, req[k])]
    /\ i' = [i EXCEPT ![k] = n]
    /\ wr' = [wr EXCEPT ![k] = [n |-> n, err |-> werr]]
    /\ LET e == writeOutcome(n, werr)
           h == Append(ops[k], "write")
       IN  IF e.kind # "nil"
           THEN Return(k, c[k], e, h)
           ELSE /\ pc' = [pc EXCEPT ![k] = "read"]
                /\ ops' = [ops EXCEPT ![k] = h]
                /\ UNCHANGED <<err, ret, conns, succeeded>>
    /\ UNCHANGED <<s, Ident, network, addr, c, req, resp, dialed, resolved, rd, calls>>
    /\ UNCHANGED <<built, assigns, storing, ptr, panics>>

\* A switch on the reply's first byte instead of its second.
interpretByte0(r) ==
    IF r[1] = accessGranted THEN NilErr
    ELSE IF r[1] = accessIdentRequired \/ r[1] = accessIdentFailed
    THEN TypedError(ErrIdentRequired, <<>>, "")
    ELSE IF r[1] = accessRejected THEN TypedError(ErrConnRejected, <<>>, "")
    ELSE TypedError(ErrInvalidResponse, <<r[1]>>, "")

\* The switch on the status byte (lines 97-106): the error Dial returns.
interpret(r) ==
    IF r[2] = accessGranted THEN NilErr
    ELSE IF r[2] = accessIdentRequired \/ r[2] = accessIdentFailed
    THEN TypedError(ErrIdentRequired, <<>>, "")
    ELSE IF r[2] = accessRejected THEN TypedError(ErrConnRejected, <<>>, "")
    ELSE TypedError(ErrInvalidResponse, <<r[2]>>, "")

\* A Read check without the test of the byte count.
readOutcomeNoLen(n, rerr, r) ==
    IF rerr # "nil" /\ rerr # "EOF" THEN TypedError(ErrIO, <<>>, rerr)
    ELSE interpret(r)

\* What Dial makes of the Read's result (lines 91-106), the buffer being r.
readOutcome(n, rerr, r) ==
    IF rerr # "nil" /\ rerr # "EOF" THEN TypedError(ErrIO, <<>>, rerr)
    ELSE IF n # RespLen THEN TypedError(ErrIO, <<>>, "ErrUnexpectedEOF")
    ELSE interpret(r)

\* i, err = c.Read(resp[:]) and the rest of Dial (lines 89-106): the stream
\* delivers data with the error rerr.
Read(k, data, rerr) ==
    /\ pc[k] = "read"
    /\ resp' = [resp EXCEPT ![k] = Filled(data)]
    /\ i' = [i EXCEPT ![k] = Len(data)]
    /\ rd' = [rd EXCEPT ![k] = [n |-> Len(data), err |-> rerr]]
    /\ Return(k, c[k], readOutcome(Len(data), rerr, Filled(data)),
              Append(ops[k], "read"))
    /\ UNCHANGED <<s, Ident, network, addr, c, req, dialed, resolved, wrote, wr,
                   calls>>
    /\ UNCHANGED <<built, assigns, storing, ptr, panics>>

\* One invocation slot's steps.
Step(k) ==
    \/ \E nw \in Networks, a \in Addrs : Call(k, nw, a)
    \/ \E derr \in DialErrs : DialUpstream(k, derr)
    \/ \E answer \in ResolveIPAddr(<<>>) \cup ResolveIPAddr(<<"a">>) :
          PrepareRequest(k, answer)
    \/ \E seen \in Readable(Loaded(k)) : PrepareRequestIdent(k, seen)
    \/ PrepareRequestFault(k)
    \/ \E n \in 0..Len(req[k]), werr \in WriteErrs : Write(k, n, werr)
    \/ \E r \in ReadResults : Read(k, r[1], r[2])
    \/ Collect(k)
    \/ Recover(k)

Next ==
    \/ \E v \in Idents : SetIdent(v)
    \/ \E v \in Idents : SetIdentData(v)
    \/ SetIdentLen
    \/ \E k \in Sequential : Step(k)

Spec == Init /\ [][Next]_vars

(***************************************************************************)
(* Interleaved invocations: each slot runs Dial once on the same           *)
(* descriptor, their steps in any order, over a smaller choice of inputs  *)
(* and answers.                                                            *)
(***************************************************************************)
ConcIdents == {DefaultIdent, <<"u">>}
ConcNetworks == {"tcp", "udp"}
ConcAddrs ==
    { <<"a", ":", "8", "0">>,
      <<"[", "a", "]", ":", "8", "0">>,
      <<":", "8", "0">>,
      <<"a", ":", "8", "x">> }
ConcReadResults ==
    { <<Reply(0, accessGranted, 0), "nil">>,
      <<Reply(0, accessRejected, 0), "EOF">>,
      <<(<<>>), "EOF">> }

ConcStep(k) ==
    \/ \E nw \in ConcNetworks, a \in ConcAddrs : Call(k, nw, a)
    \/ \E derr \in DialErrs : DialUpstream(k, derr)
    \/ \E answer \in ResolveIPAddr(<<>>) \cup ResolveIPAddr(<<"a">>) :
          PrepareRequest(k, answer)
    \/ \E seen \in Readable(Loaded(k)) : PrepareRequestIdent(k, seen)
    \/ PrepareRequestFault(k)
    \/ \E n \in {minRequestLen - 1, Len(req[k])} : Write(k, n, "nil")
    \/ Write(k, 0, "EPIPE")
    \/ \E r \in ConcReadResults : Read(k, r[1], r[2])

ConcNext ==
    \/ \E v \in ConcIdents : SetIdent(v)
    \/ \E v \in ConcIdents : SetIdentData(v)
    \/ SetIdentLen
    \/ \E k \in Invs : ConcStep(k)

SpecConc == Init /\ [][ConcNext]_vars

(***************************************************************************)
(* Properties.                                                             *)
(***************************************************************************)
\* The invocation has returned and its result has not been collected yet.
Returned(k) == pc[k] = "done"

\* The invocation acquired a stream from the upstream dialer.
Acquired(k) == c[k] # NilConn

\* The request was written in full or at least past the fixed header, and
\* the Write reported no error.
WriteSucceeded(k) == wr[k].err = "nil" /\ wr[k].n >= 8

\* The kind of the error Dial returned.
Outcome(k) == ret[k].err.kind

\* An assignment of Ident raced with the read of it by invocation k.
Raced(k) == built[k].raced

\* The value Ident had when invocation k built its request.
IdentAt(k) == built[k].ident

\* C1: for every 8-byte reply read (with no error, or with a clean end of
\* stream) after a successful request write, Dial's result is decided by
\* reply byte 1 alone: 0x5A gives the stream and no error, 0x5B gives
\* ConnectionRejected, 0x5C and 0x5D give IdentRequired, and any other
\* value gives InvalidResponse carrying that byte.
C1_StatusByteDecides ==
    \A k \in Invs :
        (Returned(k) /\ WriteSucceeded(k)
         /\ rd[k].n = 8 /\ rd[k].err \in {"nil", "EOF"}) =>
            LET st == resp[k][2]
            IN  /\ st = 90 => Outcome(k) = "nil" /\ Acquired(k) /\ ret[k].c = c[k]
                /\ st = 91 => Outcome(k) = "ErrConnRejected"
                /\ st \in {92, 93} => Outcome(k) = "ErrIdentRequired"
                /\ st \notin {90, 91, 92, 93} =>
                      Outcome(k) = "ErrInvalidResponse" /\ ret[k].err.args = <<st>>

\* A reply whose byte 0 is 0x5A and whose status byte is 0x5B was read and
\* reported as ConnectionRejected.
C1_Witness ==
    \E k \in Invs :
        /\ Returned(k) /\ WriteSucceeded(k) /\ rd[k].n = 8
        /\ resp[k][1] = 90 /\ resp[k][2] = 91
        /\ Outcome(k) = "ErrConnRejected"

\* C2: in every Dial invocation that acquired a stream, a non-nil error
\* means the stream has been closed by the time Dial returns, and a nil
\* error means Dial never closed it.
C2_ClosedIffError ==
    \A k \in Invs :
        (Returned(k) /\ Acquired(k)) =>
            /\ Outcome(k) # "nil" => conns[c[k]].closes >= 1
            /\ Outcome(k) = "nil" => conns[c[k]].closes = 0 /\ ret[k].c = c[k]

\* Dial returned ConnectionRejected and the stream it had acquired is closed.
C2_Witness ==
    \E k \in Invs :
        /\ Returned(k) /\ Acquired(k)
        /\ Outcome(k) = "ErrConnRejected"
        /\ conns[c[k]].closes = 1

\* C3: for every network other than "tcp" and "tcp4", Dial returns
\* WrongNetwork with no stream, and neither calls the upstream dialer nor
\* resolves, writes, reads or closes anything.
C3_WrongNetwork ==
    \A k \in Invs :
        (pc[k] # "idle" /\ network[k] \notin {"tcp", "tcp4"}) =>
            /\ Returned(k)
            /\ Outcome(k) = "ErrWrongNetwork"
            /\ ret[k].c = NilConn
            /\ ~Acquired(k)
            /\ dialed[k] = <<>> /\ ops[k] = <<>> /\ resolved[k] = <<>>
            /\ wrote[k] = <<>> /\ wr[k] = NoIO /\ rd[k] = NoIO

\* Dial("udp", ...) has returned WrongNetwork.
C3_Witness ==
    \E k \in Invs :
        /\ Returned(k) /\ network[k] = "udp"
        /\ Outcome(k) = "ErrWrongNetwork"
        /\ dialed[k] = <<>>

\* The address does not split as host:port, or its port is not a base-10
\* integer.
Malformed(a) ==
    SplitHostPort(a).err \/ Atoi(SplitHostPort(a).port).err

\* C4: for every address that is malformed, Dial (valid network, upstream
\* dial succeeded, either scheme) returns WrongAddress naming the address,
\* and nothing else.
C4_WrongAddress ==
    \A k \in Invs :
        (Returned(k) /\ Acquired(k) /\ Malformed(addr[k])) =>
            Outcome(k) = "ErrWrongAddr" /\ ret[k].err.args = <<addr[k]>>

\* The port number written in the address, when it is well formed.
PortOf(a) == Atoi(SplitHostPort(a).port).n

\* The 16-bit big-endian port field of a request.
PortField(r) == r[3] * 256 + r[4]

\* C5: an address whose port is not within 1..65535 makes Dial fail with
\* WrongAddress, and the port field of every request written equals the
\* port number given in the address.
C5_PortInRange ==
    \A k \in Invs :
        ~Malformed(addr[k]) =>
            /\ (Returned(k) /\ Acquired(k) /\ PortOf(addr[k]) \notin 1..65535) =>
                   Outcome(k) = "ErrWrongAddr"
            /\ wrote[k] # <<>> => PortField(wrote[k][1]) = PortOf(addr[k])

\* C6: every byte sequence passed to Write is [0x04][0x01][port][4-byte
\* address][Ident][0x00], followed by [hostname][0x00] exactly under socks4a:
\* its length is 8 + len(Ident) + 1, plus len(host) + 1 under socks4a.
\* (Stated for the well-formed addresses, the only ones for which a request
\* is meant to be written, and for an Ident that is not assigned while it
\* is read.)
C6_RequestShape ==
    \A k \in Invs :
        (wrote[k] # <<>> /\ ~Malformed(addr[k]) /\ ~Raced(k)) =>
            LET r == wrote[k][1]
                n == Len(IdentAt(k))
                host == parseAddr(addr[k]).host
            IN  /\ Len(r) = IF s.url.Scheme = "socks4a"
                            THEN 8 + n + 1 + Len(host) + 1
                            ELSE 8 + n + 1
                /\ r[1] = 4 /\ r[2] = 1
                /\ SubSeq(r, 9, 8 + n) = Bytes(IdentAt(k))
                /\ r[9 + n] = 0
                /\ s.url.Scheme = "socks4a" =>
                      /\ SubSeq(r, 10 + n, Len(r) - 1) = Bytes(host)
                      /\ r[Len(r)] = 0

\* C7: under socks4a Dial never resolves the host, never returns
\* HostUnknown, and every request written has the address field 0.0.0.1
\* and, right after the NUL ending the Ident, the target hostname and a NUL.
C7_Socks4aRequest ==
    \A k \in Invs :
        s.url.Scheme = "socks4a" =>
            /\ resolved[k] = <<>>
            /\ Returned(k) => Outcome(k) # "ErrHostUnknown"
            /\ (wrote[k] # <<>> /\ ~SplitHostPort(addr[k]).err /\ ~Raced(k)) =>
                  LET r == wrote[k][1]
                      n == Len(IdentAt(k))
                      host == SplitHostPort(addr[k]).host
                  IN  /\ SubSeq(r, 5, 8) = <<0, 0, 0, 1>>
                      /\ r[9 + n] = 0
                      /\ SubSeq(r, 10 + n, Len(r)) = Bytes(host) \o <<0>>

\* C8: under socks4 every request written carries in its 4-byte destination
\* field the IPv4 address the resolver returned for the target host and
\* ends with the NUL that ends the Ident, for every host, the empty one
\* included.  (Stated for the well-formed addresses.)
C8_Socks4Request ==
    \A k \in Invs :
        (s.url.Scheme = "socks4" /\ wrote[k] # <<>> /\ ~Malformed(addr[k])
         /\ ~Raced(k)) =>
            LET r == wrote[k][1]
                n == Len(IdentAt(k))
            IN  /\ Len(resolved[k]) = 1
                /\ Len(r) = 8 + n + 1
                /\ SubSeq(r, 5, 8) = To4(resolved[k][1].IP)
                /\ SubSeq(r, 9, 8 + n) = Bytes(IdentAt(k))
                /\ r[Len(r)] = 0

\* C9: after a successful write, a Read that returns a non-EOF error or
\* fewer than 8 bytes makes Dial return IOError whatever the buffer holds;
\* a Read that returns 8 bytes with a clean end of stream is interpreted by
\* its status byte and is not an IOError.
C9_ShortOrFailedRead ==
    \A k \in Invs :
        (Returned(k) /\ WriteSucceeded(k) /\ rd[k] # NoIO) =>
            /\ rd[k].err \notin {"nil", "EOF"} =>
                  Outcome(k) = "ErrIO" /\ ret[k].err.cause = rd[k].err
            /\ (rd[k].err \in {"nil", "EOF"} /\ rd[k].n < 8) =>
                  Outcome(k) = "ErrIO" /\ ret[k].err.cause = "ErrUnexpectedEOF"
            /\ (rd[k].err = "EOF" /\ rd[k].n = 8) =>
                  /\ Outcome(k) # "ErrIO"
                  /\ Outcome(k) = "nil" <=> resp[k][2] = 90

\* Seven bytes arrived, the status byte among them saying "granted", and
\* Dial returned IOError.
C9_Witness ==
    \E k \in Invs :
        /\ Returned(k) /\ rd[k].n = 7 /\ rd[k].err = "nil"
        /\ resp[k][2] = 90
        /\ Outcome(k) = "ErrIO"

\* C10: if the Write returns an error or reports fewer than 8 bytes, Dial
\* returns IOError, performs no Read and closes the stream.
C10_FailedWrite ==
    \A k \in Invs :
        (wr[k] # NoIO /\ (wr[k].err # "nil" \/ wr[k].n < 8)) =>
            /\ Returned(k)
            /\ Outcome(k) = "ErrIO"
            /\ rd[k] = NoIO
            /\ \A j \in 1..Len(ops[k]) : ops[k][j] # "read"
            /\ conns[c[k]].closes = 1

\* The Write reported seven bytes and no error, and Dial returned IOError.
C10_Witness ==
    \E k \in Invs :
        /\ wr[k].n = 7 /\ wr[k].err = "nil"
        /\ Returned(k) /\ Outcome(k) = "ErrIO"
        /\ rd[k] = NoIO

\* C11: if the upstream dialer fails, Dial returns DialFailed wrapping the
\* dialer's error and no stream, and neither resolves, writes, reads nor
\* closes anything.
C11_DialFailed ==
    \A k \in Invs :
        (dialed[k] # <<>> /\ dialed[k][1].err # "nil") =>
            /\ Returned(k)
            /\ Outcome(k) = "ErrDialFailed"
            /\ ret[k].err.cause = dialed[k][1].err
            /\ ret[k].c = NilConn /\ ~Acquired(k)
            /\ ops[k] = <<"dial">>
            /\ resolved[k] = <<>> /\ wrote[k] = <<>>
            /\ wr[k] = NoIO /\ rd[k] = NoIO

\* The upstream dialer refused the connection and Dial returned DialFailed.
C11_Witness ==
    \E k \in Invs :
        /\ Returned(k)
        /\ dialed[k] # <<>> /\ dialed[k][1].err = "ECONNREFUSED"
        /\ Outcome(k) = "ErrDialFailed"

\* C12: under socks4, if resolving the target host fails, Dial returns
\* HostUnknown naming the host and wrapping the resolver's error, writes
\* nothing, reads nothing, and closes the stream.
C12_HostUnknown ==
    \A k \in Invs :
        (s.url.Scheme = "socks4" /\ resolved[k] # <<>> /\ resolved[k][1].err) =>
            /\ Returned(k)
            /\ Outcome(k) = "ErrHostUnknown"
            /\ ret[k].err.args = <<SplitHostPort(addr[k]).host>>
            /\ ret[k].err.cause = "ResolveIPAddr"
            /\ wrote[k] = <<>> /\ wr[k] = NoIO /\ rd[k] = NoIO
            /\ ops[k] = <<"dial", "resolve", "close">>
            /\ conns[c[k]].closes = 1

\* Host "a" did not resolve and Dial returned HostUnknown naming it.
C12_Witness ==
    \E k \in Invs :
        /\ Returned(k) /\ s.url.Scheme = "socks4"
        /\ resolved[k] # <<>> /\ resolved[k][1].err
        /\ Outcome(k) = "ErrHostUnknown" /\ ret[k].err.args = <<(<<"a">>)>>

\* C13: every Dial invocation whose network is "tcp" or "tcp4" calls the
\* upstream dialer exactly once, whatever the outcome, with the invocation's
\* network and the descriptor's proxy endpoint, never the target address.
C13_OneDialToProxy ==
    \A k \in Invs :
        /\ Len(dialed[k]) <= 1
        /\ (network[k] \in {"tcp", "tcp4"} /\ pc[k] \notin {"idle", "dial"}) =>
              /\ Len(dialed[k]) = 1
              /\ dialed[k][1].address = s.url.Host
              /\ dialed[k][1].address = <<"x", ":", "1", "0", "8", "0">>
              /\ dialed[k][1].address # addr[k]
              /\ dialed[k][1].network = network[k]

\* A handshake that ended in ConnectionRejected dialed the proxy once.
C13_Witness ==
    \E k \in Invs :
        /\ Returned(k) /\ Outcome(k) = "ErrConnRejected"
        /\ Len(dialed[k]) = 1
        /\ dialed[k][1].address = <<"x", ":", "1", "0", "8", "0">>

\* No invocation is in flight.
Quiescent == \A k \in Invs : pc[k] \in {"idle", "done"}

\* The streams acquired so far that no one has closed.
OpenStreams == {id \in 1..Len(conns) : conns[id].closes = 0}

\* Every stream is open or closed once.
ClosedAtMostOnce == \A id \in 1..Len(conns) : conns[id].closes \in {0, 1}

NoLeak ==
    /\ ClosedAtMostOnce
    /\ Quiescent => Cardinality(OpenStreams) = succeeded + panics

AddrLen(k) ==
    IF s.url.Scheme = "socks4a" THEN 4 ELSE Len(To4(resolved[k][1].IP))

\* The ident field of the request invocation k wrote: the bytes between the
\* address and the first NUL after it.
IdentField(k) ==
    LET r == wrote[k][1]
        from == 4 + AddrLen(k) + 1
        nul == CHOOSE j \in from..Len(r) :
                  r[j] = 0 /\ \A m \in from..(j - 1) : r[m] # 0
    IN  SubSeq(r, from, nul - 1)

\* C15: the ident field of a request equals the process-wide Ident at the
\* time the request is built, no assignment of Ident being under way at
\* that time: it is the value last assigned, whenever that was, and it is
\* "nobody@0.0.0.0" when Ident was never assigned.
C15_IdentSent ==
    \A k \in Invs :
        (wrote[k] # <<>> /\ ~Raced(k)) =>
            /\ IdentAt(k) \in Idents
            /\ IdentField(k) = Bytes(IdentAt(k))
            /\ assigns = 0 =>
                  IdentField(k) = <<110, 111, 98, 111, 100, 121, 64,
                                    48, 46, 48, 46, 48, 46, 48>>

\* Ident was set to "u", and a request built afterwards, with no assignment
\* under way, carries "u".
C15_Witness ==
    \E k \in Invs :
        /\ Ident = Str(<<"u">>) /\ ~storing /\ assigns = 1
        /\ wrote[k] # <<>> /\ ~Raced(k) /\ IdentAt(k) = <<"u">>
        /\ IdentField(k) = <<117>>

\* C16: for a fixed scheme, target host, port, Ident and resolution result,
\* two Dial invocations write byte-identical requests, whatever else
\* differs between them (the spelling of the address, the slot, the
\* invocations and replies that came before); Ident is fixed when both
\* read the same value of it, no assignment racing with either read.
C16_SameInputsSameRequest ==
    \A k1 \in Invs, k2 \in Invs :
        (/\ wrote[k1] # <<>> /\ wrote[k2] # <<>>
         /\ ~Malformed(addr[k1]) /\ ~Malformed(addr[k2])
         /\ SplitHostPort(addr[k1]).host = SplitHostPort(addr[k2]).host
         /\ PortOf(addr[k1]) = PortOf(addr[k2])
         /\ ~Raced(k1) /\ ~Raced(k2) /\ IdentAt(k1) = IdentAt(k2)
         /\ resolved[k1] = resolved[k2]) =>
            wrote[k1] = wrote[k2]

\* The first invocation has read the proxy's reply and returned; the
\* second, which dialled after it and was given the same host and port
\* spelled differently, wrote the same bytes.
C16_Witness ==
    /\ Returned(1) /\ rd[1].n = RespLen /\ c[1] = 1 /\ c[2] = 2
    /\ addr[1] = <<"a", ":", "8", "0">>
    /\ addr[2] = <<"[", "a", "]", ":", "8", "0">>
    /\ ~Raced(1) /\ ~Raced(2)
    /\ wrote[1] # <<>>
    /\ wrote[1] = wrote[2]

\* The dial, write and read operations of a history, in their order.
Core(h) == SelectSeq(h, LAMBDA x : x \in {"dial", "write", "read"})

\* p is a prefix of q.
IsPrefix(p, q) == Len(p) <= Len(q) /\ SubSeq(q, 1, Len(p)) = p

\* How far an invocation has come: Unconnected, TransportOpen (before and
\* after the request is built), RequestSent, and the terminal state.
Rank(p) ==
    CASE p = "idle" -> 0
      [] p = "dial" -> 1
      [] p = "prepare" -> 2
      [] p = "ident" -> 3
      [] p = "write" -> 4
      [] p = "read" -> 5
      [] p = "done" -> 6
      [] p = "panic" -> 6

\* The invocation detected a failure: of the dial, of the resolution, of
\* the write, or of the read and the reply.
DialFailed(k) == dialed[k] # <<>> /\ dialed[k][1].err # "nil"
ResolveFailed(k) == resolved[k] # <<>> /\ resolved[k][1].err
WriteFailed(k) == wr[k] # NoIO /\ ~WriteSucceeded(k)

\* What one invocation has done so far is a run of the forward machine.
Forward(k) ==
    /\ IsPrefix(Core(ops[k]), <<"dial", "write", "read">>)
    /\ Len(dialed[k]) <= 1 /\ Len(wrote[k]) <= 1
    /\ (\E n \in DOMAIN ops[k] : ops[k][n] = "write") =>
          Acquired(k) /\ dialed[k][1].err = "nil" /\ ~ResolveFailed(k)
    /\ (\E n \in DOMAIN ops[k] : ops[k][n] = "read") => WriteSucceeded(k)
    /\ DialFailed(k) => Returned(k) /\ Core(ops[k]) = <<"dial">>
    /\ ResolveFailed(k) => Returned(k) /\ Core(ops[k]) = <<"dial">>
    /\ WriteFailed(k) => Returned(k) /\ Core(ops[k]) = <<"dial", "write">>
    /\ rd[k] # NoIO => Returned(k)
    /\ (DialFailed(k) \/ ResolveFailed(k) \/ WriteFailed(k)) =>
          Outcome(k) # "nil"
    /\ (Returned(k) /\ Outcome(k) = "nil") =>
          Core(ops[k]) = <<"dial", "write", "read">>

\* C17: each Dial invocation moves only forward: at most one upstream dial,
\* one write and one read, in that order; a read only after a successful
\* write, a write only after a successful dial; nothing more once a failure
\* is detected; and one terminal state, reached once: until the caller has
\* taken the result, a returned invocation does nothing and its result
\* stays what it was.
C17_ForwardOnly ==
    /\ \A k \in Invs : Forward(k)
    /\ [][\A k \in Invs :
            /\ Forward(k)'
            /\ pc'[k] # pc[k] =>
                  \/ Rank(pc'[k]) > Rank(pc[k])
                  \/ pc[k] \in {"done", "panic"} /\ pc'[k] = "idle"
            /\ pc[k] \notin {"done", "panic"} => IsPrefix(ops[k], ops'[k])
            /\ (pc[k] = "done" /\ pc'[k] = "done") =>
                  ret'[k] = ret[k] /\ ops'[k] = ops[k]]_vars

\* An invocation went through the dial, the write and the read, was
\* rejected by the proxy, and closed its stream last.
C17_Witness ==
    \E k \in Invs :
        /\ Returned(k)
        /\ Core(ops[k]) = <<"dial", "write", "read">>
        /\ ops[k][Len(ops[k])] = "close"
        /\ Outcome(k) = "ErrConnRejected"

\* The number of closes in a history.
Closes(h) == Len(SelectSeq(h, LAMBDA x : x = "close"))

\* The error Dial returns when the invocation runs alone with the inputs
\* and the stream behaviour invocation k had: its network and address, its
\* dialer's error, its resolver's answer, the Ident it found, its Write's
\* and Read's results.
Alone(k) ==
    IF ~networkOK(network[k]) THEN TypedError(ErrWrongNetwork, <<>>, "")
    ELSE IF dialed[k][1].err # "nil" THEN dialOutcome(dialed[k][1].err)
    ELSE LET answer == IF isSocks4a(s) THEN [IP |-> <<>>, err |-> FALSE]
                       ELSE resolved[k][1]
             r == prepareRequest(s, addr[k], IdentAt(k), answer)
         IN  IF r.err.kind # "nil" THEN r.err
             ELSE IF writeOutcome(wr[k].n, wr[k].err).kind # "nil"
             THEN writeOutcome(wr[k].n, wr[k].err)
             ELSE readOutcome(rd[k].n, rd[k].err, resp[k])

\* C18: when invocations on the same descriptor run interleaved, Ident not
\* being modified meanwhile, each one writes to, reads from and closes only
\* the stream it acquired, and its result and the final open or closed
\* state of its stream are those of the invocation run alone with the same
\* inputs and the same stream behaviour.
C18_Independent ==
    /\ (Acquired(1) /\ Acquired(2)) => c[1] # c[2]
    /\ \A k \in Invs :
        /\ Acquired(k) => conns[c[k]].closes = Closes(ops[k])
        /\ wrote[k] # <<>> => Acquired(k)
        /\ (wrote[k] # <<>> /\ ~Raced(k)) =>
              /\ wrote[k][1] =
                    prepareRequest(s, addr[k], IdentAt(k),
                                   IF isSocks4a(s) THEN [IP |-> <<>>, err |-> FALSE]
                                   ELSE resolved[k][1]).req
        /\ Returned(k) =>
              /\ Outcome(k) = Alone(k).kind
              /\ ret[k].err.cause = Alone(k).cause
              /\ ret[k].c = c[k]
              /\ Acquired(k) =>
                    conns[c[k]].closes = IF Alone(k).kind # "nil" THEN 1 ELSE 0

\* The second invocation dialled after the first, failed and closed its
\* stream while the first, its own stream still open, waits for the reply.
C18_Witness ==
    /\ pc[1] = "read" /\ c[1] = 1 /\ conns[1].closes = 0
    /\ Returned(2) /\ c[2] = 2 /\ conns[2].closes = 1
    /\ Outcome(2) = "ErrIO"

\* The history holds a read.
HasRead(k) == \E j \in 1..Len(ops[k]) : ops[k][j] = "read"

\* C19 as stated: Dial reads the reply only when the whole request has been
\* written: a Write that reports, without an error, fewer bytes than the
\* request holds makes Dial return IOError and perform no read, also when
\* it reports 8 bytes or more.
C19_WholeRequestWritten ==
    \A k \in Invs :
        (wr[k] # NoIO /\ wr[k].err = "nil" /\ wr[k].n < Len(wrote[k][1])) =>
            /\ Returned(k)
            /\ Outcome(k) = "ErrIO"
            /\ rd[k] = NoIO
            /\ ~HasRead(k)

\* C19, amended: Dial reads the reply when the Write reported, without an
\* error, at least the 8 bytes of the fixed header: fewer than 8 bytes make
\* Dial return IOError and perform no read; 8 bytes or more make Dial go on
\* to the read, also when they are fewer than the request holds, and the
\* result is then the one the read and the reply give.
C19_HeaderWritten ==
    \A k \in Invs :
        (wr[k] # NoIO /\ wr[k].err = "nil") =>
            /\ wr[k].n < minRequestLen =>
                  /\ Returned(k) /\ Outcome(k) = "ErrIO"
                  /\ rd[k] = NoIO /\ ~HasRead(k)
            /\ wr[k].n >= minRequestLen =>
                  /\ pc[k] \in {"read", "done"}
                  /\ Returned(k) =>
                        /\ rd[k] # NoIO /\ HasRead(k)
                        /\ Outcome(k) = readOutcome(rd[k].n, rd[k].err, resp[k]).kind

\* The Write reported 8 bytes of a longer request and no error; Dial read
\* the reply and returned the stream.
C19_Witness ==
    \E k \in Invs :
        /\ wr[k].n = minRequestLen /\ wr[k].err = "nil"
        /\ Len(wrote[k][1]) > minRequestLen
        /\ Returned(k) /\ HasRead(k) /\ rd[k].n = RespLen
        /\ Outcome(k) = "nil"

\* C20: within one Dial invocation the acquired stream is closed at most
\* once, the close is the last operation Dial performs on it, and the
\* stream returned together with an error is that same stream, closed
\* already.
C20_ClosedOnceLast ==
    \A k \in Invs :
        Acquired(k) =>
            /\ conns[c[k]].closes <= 1
            /\ Closes(ops[k]) = conns[c[k]].closes
            /\ Closes(ops[k]) = 1 =>
                  /\ ops[k][Len(ops[k])] = "close"
                  /\ Returned(k)
            /\ (Returned(k) /\ Outcome(k) # "nil") =>
                  /\ ret[k].c = c[k]
                  /\ conns[ret[k].c].closes = 1

\* After the write and the read Dial returned InvalidResponse together with
\* the stream it had acquired, closed once, the close coming last.
C20_Witness ==
    \E k \in Invs :
        /\ Returned(k) /\ Outcome(k) = "ErrInvalidResponse"
        /\ ret[k].c = c[k] /\ c[k] # NilConn
        /\ conns[c[k]].closes = 1
        /\ Core(ops[k]) = <<"dial", "write", "read">>
        /\ ops[k][Len(ops[k])] = "close"
====
